---- MODULE Spec2Model ----
(***************************************************************************)
(* pistonproxy: the per-connection protocol state machine of the proxy     *)
(* (src/proxy.rs), the packet framer (src/packet.rs), the wire codec       *)
(* (src/reader.rs, src/writer.rs) and the typed packet views               *)
(* (src/client_packets.rs, src/server_packets.rs).                         *)
(*                                                                         *)
(* Bytes are integers 0..255, a Vec<u8> or a String is a sequence of       *)
(* bytes, an i32 is an integer in -2^31 .. 2^31-1.  An Option is a record  *)
(* tagged "None" or "Some"; a call that panics yields the record Panic.    *)
(***************************************************************************)
EXTENDS Integers, Sequences, FiniteSets, TLC

None == [tag |-> "None"]
Some(v) == [tag |-> "Some", val |-> v]
Panic == [tag |-> "panic"]

\* ------------------------------------------------------------ bounds
\* Chunks the client reader may receive in one session.
MaxClientChunks == 4
\* Chunks the backend reader may receive in one session.
MaxBackendChunks == 2
\* settings.client_buffer_size and settings.backend_buffer_size of config.yaml.
client_buffer_size == 16
\* settings.handshake_timeout, in milliseconds
handshake_timeout == 2
\* settings.clients_limit, and the connections main accepts
clients_limit == 2
MaxAccepts == 5
backend_buffer_size == 2
\* The threads that call the tracker, and the ids it hands out.
TrackerThreads == 2
MaxIds == 3

\* ------------------------------------------------------------ constants
BUFFER_SIZE == 4096
SEGMENT_BITS == 127
CONTINUE_BIT == 128
VERSION_PROTOCOL_CODE == 765

MinI32 == (-2147483647) - 1
MaxI32 == 2147483647

\* ------------------------------------------------------------ reader.rs
\* The shift losing bit 31 with the bits past it
ShlOr32_NoSign(value, seg, position) ==
    IF position < 28
    THEN value + seg * (2 ^ position)
    ELSE value + (seg % 8) * (2 ^ 28)

\* (seg & SEGMENT_BITS) << position on an i32 that already holds `value` in
\* its low `position` bits: the bits shifted past bit 31 are lost and bit 31
\* is the sign.
ShlOr32(value, seg, position) ==
    IF position < 28
    THEN value + seg * (2 ^ position)
    ELSE LET low4 == seg % 16
             v == value + (low4 % 8) * (2 ^ 28)
         IN IF low4 \div 8 = 1 THEN (v - MaxI32) - 1 ELSE v

RECURSIVE read_int_loop(_, _, _, _, _)
read_int_loop(vec, offset, value, position, cursor) ==
    IF position >= 32 \/ cursor >= Len(vec)
    THEN None
    ELSE LET current_byte == vec[cursor + 1]
             value2 == ShlOr32(value, current_byte % (SEGMENT_BITS + 1), position)
         IN IF current_byte \div CONTINUE_BIT = 0
            THEN [tag |-> "Some", val |-> value2, len |-> (cursor + 1) - offset]
            ELSE read_int_loop(vec, offset, value2, position + 7, cursor + 1)

\* VarDataReader::read_int: None, or the value and the bytes consumed.
read_int(vec, offset) == read_int_loop(vec, offset, 0, 0, offset)

\* VarDataReader::read_long. The i64 value is kept as its 7-bit groups, least
\* significant first (the value is their sum weighted by 128^i, mod 2^64).
\* Panic: the index self[cursor] is out of bounds on the first iteration.
RECURSIVE read_long_loop(_, _, _, _, _)
read_long_loop(vec, offset, groups, position, cursor) ==
    IF cursor >= Len(vec)
    THEN Panic
    ELSE LET current_byte == vec[cursor + 1]
             groups2 == Append(groups, current_byte % (SEGMENT_BITS + 1))
         IN IF current_byte \div CONTINUE_BIT = 0
            THEN [tag |-> "Some", val |-> groups2, len |-> (cursor + 1) - offset]
            ELSE IF position + 7 >= 64 \/ cursor + 1 >= Len(vec)
                 THEN None
                 ELSE read_long_loop(vec, offset, groups2, position + 7, cursor + 1)

read_long(vec, offset) == read_long_loop(vec, offset, <<>>, 0, offset)

\* VarDataReader::read_u16
read_u16(vec, offset) ==
    IF offset + 2 <= Len(vec)
    THEN Some(vec[offset + 1] * 256 + vec[offset + 2])
    ELSE None

\* String::from_utf8: whether the bytes are well-formed UTF-8.
RECURSIVE from_utf8_ok(_)
from_utf8_ok(b) ==
    LET n == Len(b)
        Cont(i) == i <= n /\ b[i] >= 128 /\ b[i] <= 191
        Rest(k) == from_utf8_ok(SubSeq(b, k + 1, n))
    IN IF n = 0 THEN TRUE
       ELSE LET c == b[1] IN
            IF c < 128 THEN Rest(1)
            ELSE IF c >= 194 /\ c <= 223 THEN Cont(2) /\ Rest(2)
            ELSE IF c = 224 THEN Cont(2) /\ b[2] >= 160 /\ Cont(3) /\ Rest(3)
            ELSE IF c = 237 THEN Cont(2) /\ b[2] <= 159 /\ Cont(3) /\ Rest(3)
            ELSE IF c >= 225 /\ c <= 239 THEN Cont(2) /\ Cont(3) /\ Rest(3)
            ELSE IF c = 240 THEN Cont(2) /\ b[2] >= 144 /\ Cont(3) /\ Cont(4) /\ Rest(4)
            ELSE IF c >= 241 /\ c <= 243 THEN Cont(2) /\ Cont(3) /\ Cont(4) /\ Rest(4)
            ELSE IF c = 244 THEN Cont(2) /\ b[2] <= 143 /\ Cont(3) /\ Cont(4) /\ Rest(4)
            ELSE FALSE

\* VarDataReader::read_string: None, Panic (the slice self[start..end] is out
\* of range, or str_len is negative), or the string and the bytes consumed.
read_string(vec, offset) ==
    LET r == read_int(vec, offset) IN
    IF r.tag = "None" THEN None
    ELSE LET start == offset + r.len
             end == start + r.val
         IN IF r.val < 0 \/ end > Len(vec)
            THEN Panic
            ELSE LET slice == SubSeq(vec, start + 1, end)
                 IN [tag |-> "Some",
                     val |-> IF from_utf8_ok(slice) THEN slice ELSE <<>>,
                     len |-> r.len + r.val]

\* ------------------------------------------------------------ writer.rs
\* (value as u32) >> 7, as an i32
Shr7(value) ==
    IF value >= 0 THEN value \div 128 ELSE (value \div 128) + 33554432

\* self.push(b) when self.len() == cursor, else self[cursor] = b
put_byte(vec, cursor, b) ==
    IF Len(vec) = cursor THEN Append(vec, b) ELSE [vec EXCEPT ![cursor + 1] = b]

RECURSIVE write_int_loop(_, _, _, _)
write_int_loop(vec, value, cursor, offset) ==
    LET terminate == value >= 0 /\ value <= SEGMENT_BITS
        next_byte == IF terminate THEN value
                     ELSE (value % (SEGMENT_BITS + 1)) + CONTINUE_BIT
        vec2 == put_byte(vec, cursor, next_byte)
    IN IF terminate
       THEN [vec |-> vec2, len |-> (cursor + 1) - offset]
       ELSE write_int_loop(vec2, Shr7(value), cursor + 1, offset)

\* VarDataWriter::write_int: the vector after the write and the bytes written.
write_int(vec, val, offset) == write_int_loop(vec, val, offset, offset)

\* Vec::resize(n, 0)
resize(vec, n) ==
    IF Len(vec) >= n THEN SubSeq(vec, 1, n)
    ELSE vec \o [i \in 1..(n - Len(vec)) |-> 0]

\* dst[at .. at + len(src)].copy_from_slice(src)
copy_from_slice(dst, at, src) ==
    [i \in 1..Len(dst) |->
        IF i > at /\ i <= at + Len(src) THEN src[i - at] ELSE dst[i]]

\* VarDataWriter::write_u16
write_u16(vec, val, offset) ==
    LET v == IF Len(vec) < offset + 2 THEN resize(vec, offset + 2) ELSE vec
    IN [v EXCEPT ![offset + 1] = val \div 256, ![offset + 2] = val % 256]

\* VarDataWriter::write_string
write_string(vec, val, offset) ==
    LET w == write_int(vec, Len(val), offset)
        total_len == w.len + Len(val)
        v == IF Len(w.vec) < offset + total_len
             THEN resize(w.vec, offset + total_len) ELSE w.vec
    IN [vec |-> copy_from_slice(v, offset + w.len, val), len |-> total_len]

\* ------------------------------------------------------------ chat.rs
\* Strings of the program, as their UTF-8 bytes.
BadGateway == <<66, 97, 100, 32, 71, 97, 116, 101, 119, 97, 121>>
HelloWorldBang == <<72, 101, 108, 108, 111, 32, 119, 111, 114, 108, 100, 33>>
HelloWorld == <<72, 101, 108, 108, 111, 32, 119, 111, 114, 108, 100>>
ServerConfigurationError == <<83, 101, 114, 118, 101, 114, 32, 99, 111, 110, 102, 105, 103, 117, 114, 97, 116, 105, 111, 110, 32, 101, 114, 114, 111, 114>>
ColorDisconnect == <<35, 48, 97, 100, 52, 100, 57>>
ColorStatus == <<35, 48, 48, 102, 102, 48, 48>>
VersionProtocolName == <<49, 46, 50, 48, 46, 52>>

\* ChatData::new and ChatData::new_colored (the styling flags are all false)
ChatData_new(text) == [text |-> text, color |-> None]
ChatData_new_colored(text, color) == [text |-> text, color |-> Some(color)]

\* Display for ChatData: the JSON text serde_json prints, cut down to the parts
\* that vary: '{' text [ '|' color ] '}'.
ChatData_to_string(c) ==
    <<123>> \o c.text
            \o (IF c.color.tag = "Some" THEN <<124>> \o c.color.val ELSE <<>>)
            \o <<125>>

\* ------------------------------------------------------------ packet.rs
\* MinecraftPacket::new
MinecraftPacket_new(id) == [len |-> 0, id |-> id, data |-> <<>>, cursor |-> 0]

\* usize::max
Max(a, b) == IF a >= b THEN a ELSE b

\* CursoredVarDataWriter for MinecraftPacket: write_string
packet_write_string(p, val) ==
    LET w == write_string(p.data, val, p.cursor)
        c == p.cursor + w.len
    IN [p EXCEPT !.data = w.vec, !.cursor = c, !.len = Max(p.len, c)]

\* MinecraftPacket::create_disconnect_packet
create_disconnect_packet(msg) ==
    packet_write_string(MinecraftPacket_new(0), ChatData_to_string(msg))

\* encode with the length prefix counting the payload only
encode_PayloadLength(p) ==
    LET w2 == write_int(<<>>, p.len, 0)
        w3 == write_int(w2.vec, p.id, w2.len)
        offset == w2.len + w3.len
    IN copy_from_slice(resize(w3.vec, offset + p.len), offset, p.data)

\* MinecraftPacket::encode
encode(p) ==
    LET w1 == write_int(<<>>, p.id, 0)
        w2 == write_int(w1.vec, p.len + w1.len, 0)
        w3 == write_int(w2.vec, p.id, w2.len)
        offset == w2.len + w3.len
    IN copy_from_slice(resize(w3.vec, offset + p.len), offset, p.data)

\* MinecraftPacket::parse_packet: [tag |-> "Ok", packet, len], [tag |-> "Err",
\* err], or Panic. It panics, in a debug and in a release build alike, when
\* packet_length is less than id_len (the subtraction underflows, or the slice
\* ends before it starts) and when length_len + packet_length overflows usize
\* (-5 <= packet_length < 0).
parse_packet(b) ==
    IF Len(b) = 0 THEN [tag |-> "Err", err |-> "EmptyBuffer"]
    ELSE IF Len(b) = 2 /\ b[1] = 254 /\ b[2] = 1
    THEN [tag |-> "Ok", packet |-> [len |-> 0, id |-> 255, data |-> <<>>, cursor |-> 0],
          len |-> 2]
    ELSE LET l == read_int(b, 0) IN
         IF l.tag # "Some" THEN [tag |-> "Err", err |-> "PacketFormatError"]
         ELSE LET i == read_int(b, l.len) IN
              IF i.tag # "Some" THEN [tag |-> "Err", err |-> "PacketFormatError"]
              ELSE LET packet_length == l.val
                       offset == l.len + i.len
                   IN IF packet_length < 0
                      THEN IF l.len + packet_length >= 0
                           THEN Panic
                           ELSE [tag |-> "Err", err |-> "PacketFormatError"]
                      ELSE IF packet_length < i.len
                      THEN Panic
                      ELSE LET total_length == l.len + packet_length
                               data_length == packet_length - i.len
                           IN IF Len(b) >= total_length
                              THEN [tag |-> "Ok",
                                    packet |-> [len |-> data_length, id |-> i.val,
                                                data |-> SubSeq(b, offset + 1, offset + data_length),
                                                cursor |-> 0],
                                    len |-> total_length]
                              ELSE [tag |-> "Err", err |-> "PacketFormatError"]

\* ------------------------------------------------------------ client_packets.rs
\* The four reads of HandshakePacket::try_from: the raw fields, [tag |-> "Err",
\* field] for MalformedField(field), or Panic (read_string's slice).
HandshakeFields(packet) ==
    LET d == packet.data
        f1 == read_int(d, 0)
    IN IF f1.tag # "Some" THEN [tag |-> "Err", field |-> "protocol_version"]
       ELSE LET f2 == read_string(d, f1.len) IN
       IF f2.tag = "panic" THEN Panic
       ELSE IF f2.tag # "Some" THEN [tag |-> "Err", field |-> "server_address"]
       ELSE LET f3 == read_u16(d, f1.len + f2.len) IN
       IF f3.tag # "Some" THEN [tag |-> "Err", field |-> "server_port"]
       ELSE LET f4 == read_int(d, f1.len + f2.len + 2) IN
       IF f4.tag # "Some" THEN [tag |-> "Err", field |-> "next_state"]
       ELSE [tag |-> "Some", f1 |-> f1.val, f2 |-> f2.val, f3 |-> f3.val, f4 |-> f4.val]

\* From<u16> for MinecraftProtocolState
MinecraftProtocolState_from(val) ==
    CASE val = 0 -> "HANDSHAKING"
      [] val = 1 -> "STATUS"
      [] val = 2 -> "LOGIN"
      [] val = 3 -> "PLAY"
      [] OTHER -> "NONE"

\* f4 as u16
AsU16(v) == v % 65536

\* HandshakePacket::try_from (protocol_version keeps the i32's bits)
HandshakePacket_try_from(packet) ==
    LET f == HandshakeFields(packet) IN
    IF f.tag # "Some" THEN f
    ELSE [tag |-> "Some",
          protocol_version |-> f.f1,
          server_address |-> f.f2,
          server_port |-> f.f3,
          next_state |-> MinecraftProtocolState_from(AsU16(f.f4))]

\* PingPacket::try_from
PingPacket_try_from(packet) ==
    LET f1 == read_long(packet.data, 0) IN
    IF f1.tag = "panic" THEN Panic
    ELSE IF f1.tag # "Some" THEN [tag |-> "Err", field |-> "timestamp"]
    ELSE [tag |-> "Some", timestamp |-> f1.val]

\* A number as serde_json prints it: ASCII decimal digits (non-negative here).
RECURSIVE Decimal(_)
Decimal(n) ==
    IF n < 10 THEN <<48 + n>> ELSE Decimal(n \div 10) \o <<48 + (n % 10)>>

\* ------------------------------------------------------------ server_packets.rs
\* ToString for StatusPacket: the JSON text, cut down to the parts that vary.
StatusPacket_to_string(sp) ==
    <<123>> \o sp.version.name \o <<124>>
            \o Decimal(sp.version.protocol) \o <<124>>
            \o Decimal(sp.players.max) \o <<124>>
            \o Decimal(sp.players.online) \o <<124>>
            \o ChatData_to_string(sp.description) \o <<125>>

\* The Status response built with the id of the ping
MinecraftPacket_from_status_Id1(sp) ==
    packet_write_string(MinecraftPacket_new(1), StatusPacket_to_string(sp))

\* From<StatusPacket> for MinecraftPacket
MinecraftPacket_from_status(sp) ==
    packet_write_string(MinecraftPacket_new(0), StatusPacket_to_string(sp))

\* ------------------------------------------------------------ config.rs
HostA == <<97>>
HostB == <<98>>
HostC == <<99>>
\* "127.0.0.1:1"
OriginA == <<49, 50, 55, 46, 48, 46, 48, 46, 49, 58, 49>>
\* "h:1": an origin that names its host
OriginC == <<104, 58, 49>>
MessageB == <<77>>

Endpoint(hostname, origin, message) ==
    [hostname |-> hostname, origin |-> origin, message |-> message]

\* The routing tables a session may run under (config.endpoints).
Configs ==
    { <<Endpoint(HostA, Some(OriginA), None),
        Endpoint(HostB, None, Some(MessageB)),
        Endpoint(HostA, None, None),
        Endpoint(HostC, Some(OriginC), None)>>,
      <<Endpoint(HostA, None, None)>> }

\* Config::find_endpoint: the first entry whose hostname equals addr.
RECURSIVE find_endpoint(_, _)
find_endpoint(endpoints, addr) ==
    IF endpoints = <<>> THEN None
    ELSE IF Head(endpoints).hostname = addr THEN Some(Head(endpoints))
    ELSE find_endpoint(Tail(endpoints), addr)

\* ------------------------------------------------------------ the client's bytes
Pkt(id, data) == [len |-> Len(data), id |-> id, data |-> data, cursor |-> 0]

\* A Handshake packet as a client sends it.
HandshakeBytes(host, next_state) ==
    LET p1 == write_int(<<>>, VERSION_PROTOCOL_CODE, 0).vec
        p2 == write_string(p1, host, Len(p1)).vec
        p3 == write_u16(p2, 25565, Len(p2))
        p4 == write_int(p3, next_state, Len(p3)).vec
    IN encode(Pkt(0, p4))

\* The values of next_state the client tries.
NextStates == {1, 2, 0, 3, -1, 65536, 65537}

StatusRequest == encode(Pkt(0, <<>>))
\* Ping with timestamp 0xCAFEBABE
Ping == encode(Pkt(1, <<190, 245, 250, 215, 12>>))
\* Ping with timestamp -1: ten bytes
PingNeg == encode(Pkt(1, <<255, 255, 255, 255, 255, 255, 255, 255, 255, 1>>))
\* A packet with id 1 and no timestamp
PingEmpty == encode(Pkt(1, <<>>))
LegacyPing == <<254, 1>>
\* Bytes that follow a packet in its chunk: the start of a longer packet.
Residual == <<9, 7>>
\* The start of a packet whose rest never comes.
Junk == <<30, 7, 1, 2, 3, 4, 5, 6, 7, 8, 9>>
\* One byte more than buf holds, and no packet in it
TooLong == [i \in 1..(client_buffer_size + 1) |-> 48]
TwoRequests == StatusRequest \o StatusRequest
Opaque1 == <<16, 17>>
Opaque2 == <<18>>

\* What a client may send in one chunk while the proxy parses.
ClientChunks ==
    { HandshakeBytes(HostA, v) : v \in NextStates }
    \cup { HandshakeBytes(HostB, 2), HandshakeBytes(HostC, 2),
           StatusRequest, Ping, PingNeg, PingEmpty, LegacyPing,
           StatusRequest \o Residual, TwoRequests,
           Junk, TooLong }

\* What a client may send in one chunk once the proxy relays: the bytes of the
\* login, which the proxy does not read, and a packet it would answer if it did.
ForwardChunks == { Opaque1, Opaque2, StatusRequest, TooLong }

BackendChunks == { <<33>>, <<34, 35>>, <<36, 37, 38>> }

\* ------------------------------------------------------------ proxy.rs
VARIABLES
    config,                   \* get_config().endpoints
    \* ProxySocketInfo, behind the mutex
    state, handshake_packet, disconnect_on_join,
    backend_addr, backend_socket,
    switched,                 \* the states switch_state was called with, in order
    client_send_buffer_len,
    backend_send_buffer,      \* the bytes written at the front of the Vec
    backend_send_buffer_vlen, \* the Vec's own length: BUFFER_SIZE, 0 once cleared
    backend_send_buffer_len,
    \* the mutex
    lock, poisoned,
    \* handle_connection's locals
    clientPc, buf, chunk, backend_thread_handle,
    \* handle_backend_connection's locals
    backendPc, bbuf, bchunk,
    \* the two sockets
    client_shutdown, client_eof, backend_shutdown, backend_eof,
    client_wire,              \* what the proxy wrote to the client socket
    backend_wire,             \* the bytes the proxy wrote to the backend socket
    \* history
    last,                     \* the last iteration of the parse loop
    residual,                 \* buf[0..cursor] when Forward was entered
    fwd_received,             \* client bytes received in Forward
    backend_received,         \* backend bytes received in Forward
    dials,                    \* the results of TcpStream::connect_timeout
    nClientChunks, nBackendChunks,
    elapsed,                  \* the milliseconds since the connection was accepted
    \* main.rs
    connections,              \* the AtomicU32 counting the admitted sessions
    seen,                     \* its values since main last wrote it
    mainPc, loaded,           \* main's place in its loop, and what it loaded
    conns,                    \* the connections accepted so far, each one's fate
    \* the codec taken alone
    codec_in, codec_out,      \* what a codec function is applied to, and its result
    \* socket_tracker.rs
    tracker_id,               \* SocketTracker.id, the AtomicUsize
    sockets,                  \* SocketTracker.sockets, behind its mutex
    adding,                   \* per thread, the id add_socket took and has not pushed yet
    \* history
    returned,                 \* the ids add_socket returned, in order
    added,                    \* the entries add_socket pushed
    unregistered              \* the ids remove_socket was called with once pushed

info_vars == <<state, switched, handshake_packet, disconnect_on_join, backend_addr,
               backend_socket, client_send_buffer_len, backend_send_buffer,
               backend_send_buffer_vlen, backend_send_buffer_len>>
client_vars == <<clientPc, buf, chunk, backend_thread_handle>>
backend_vars == <<backendPc, bbuf, bchunk>>
socket_vars == <<client_shutdown, client_eof, backend_shutdown, backend_eof,
                 client_wire, backend_wire>>
history_vars == <<last, residual, fwd_received, backend_received, dials,
                  nClientChunks, nBackendChunks>>
main_vars == <<connections, seen, mainPc, loaded, conns>>
proxy_vars == <<config, info_vars, lock, poisoned, client_vars, backend_vars,
                socket_vars, history_vars, elapsed>>
codec_vars == <<codec_in, codec_out>>
tracker_vars == <<tracker_id, sockets, adding, returned, added, unregistered>>
vars == <<proxy_vars, main_vars, codec_vars, tracker_vars>>

NoLast == [kind |-> "none"]

\* SharedProxySocketInfo::new, and the locals of handle_connection before its loop
Init ==
    /\ config \in Configs
    /\ state = "Handshake"
    /\ switched = <<>>
    /\ handshake_packet = None
    /\ disconnect_on_join = None
    /\ backend_addr = None
    /\ backend_socket = None
    /\ client_send_buffer_len = 0
    /\ backend_send_buffer = <<>>
    /\ backend_send_buffer_vlen = BUFFER_SIZE
    /\ backend_send_buffer_len = 0
    /\ lock = "free"
    /\ poisoned = FALSE
    /\ clientPc = "read"
    /\ buf = <<>>
    /\ chunk = <<>>
    /\ backend_thread_handle = FALSE
    /\ backendPc = "none"
    /\ bbuf = <<>>
    /\ bchunk = <<>>
    /\ client_shutdown = FALSE
    /\ client_eof = FALSE
    /\ backend_shutdown = FALSE
    /\ backend_eof = FALSE
    /\ client_wire = <<>>
    /\ backend_wire = <<>>
    /\ last = NoLast
    /\ residual = <<>>
    /\ fwd_received = <<>>
    /\ backend_received = <<>>
    /\ dials = <<>>
    /\ nClientChunks = 0
    /\ nBackendChunks = 0
    /\ elapsed = 0
    /\ connections = 0
    /\ seen = {0}
    /\ mainPc = "accept"
    /\ loaded = 0
    /\ conns = <<>>
    /\ codec_in = [op |-> "none"]
    /\ codec_out = [op |-> "none"]
    /\ tracker_id = 0
    /\ sockets = <<>>
    /\ adding = [t \in 1..TrackerThreads |-> None]
    /\ returned = <<>>
    /\ added = {}
    /\ unregistered = {}

\* vec[at .. at + len(src)].copy_from_slice(src) on a Vec known by the bytes
\* written at its front (the bytes after them are zeros)
vec_write(front, at, src) ==
    resize(front, at) \o src \o SubSeq(front, at + Len(src) + 1, Len(front))

\* The reply put before what the client socket already carries
write_packet_First(packet) ==
    IF client_shutdown THEN client_wire
    ELSE <<[src |-> "packet", st |-> state, bytes |-> encode(packet)]>> \o client_wire

\* ProxySocketInfo::write_packet: the client socket's bytes after the write
\* (a write to a socket that was shut down fails, and the error is dropped).
write_packet(packet) ==
    IF client_shutdown THEN client_wire
    ELSE Append(client_wire, [src |-> "packet", st |-> state, bytes |-> encode(packet)])

\* ProxySocketInfo::switch_state
switch_state(new_state) ==
    state' = new_state /\ switched' = Append(switched, new_state)

session_state == <<state, switched>>

\* The thread goes on with the parse loop, the lock held.
Continue == clientPc' = "parse" /\ UNCHANGED <<lock, poisoned>>

\* The guard kept past the end of the iteration
Unlock_Held == UNCHANGED lock

\* The MutexGuard goes out of scope at the end of the loop's iteration.
Unlock == lock' = "free"

\* The thread panics with the lock held: the mutex is poisoned.
PanicLocked == clientPc' = "panicked" /\ lock' = "free" /\ poisoned' = TRUE

backend_side == <<backend_addr, backend_socket, backend_send_buffer,
                  backend_thread_handle, backendPc, residual, dials>>

\* ---- the client reader: stream.read(chunk)
ClientRecv ==
    /\ clientPc = "read"
    /\ ~client_shutdown /\ ~client_eof
    /\ nClientChunks < MaxClientChunks
    /\ \E c \in (IF state = "Forward" THEN ForwardChunks ELSE ClientChunks) :
        /\ chunk' = c
        /\ fwd_received' = IF state = "Forward" THEN fwd_received \o c ELSE fwd_received
    /\ nClientChunks' = nClientChunks + 1
    /\ clientPc' = "lock"
    /\ UNCHANGED <<main_vars, codec_vars, tracker_vars, elapsed, config, info_vars, lock, poisoned, buf, backend_thread_handle,
                   backend_vars, socket_vars, last, residual, backend_received,
                   dials, nBackendChunks>>

\* read returns Ok(0): the client closed, or the socket was shut down
ClientRecvEof ==
    /\ clientPc = "read"
    /\ chunk' = <<>>
    /\ client_eof' = (client_eof \/ ~client_shutdown)
    /\ clientPc' = "lock"
    /\ UNCHANGED <<main_vars, codec_vars, tracker_vars, elapsed, config, info_vars, lock, poisoned, buf, backend_thread_handle,
                   backend_vars, client_shutdown, backend_shutdown, backend_eof,
                   client_wire, backend_wire, history_vars>>

\* read returns Err: the while-let loop ends
ClientRecvErr ==
    /\ clientPc = "read"
    /\ ~client_shutdown /\ ~client_eof
    /\ client_eof' = TRUE
    /\ clientPc' = "join"
    /\ UNCHANGED <<main_vars, codec_vars, tracker_vars, elapsed, config, info_vars, lock, poisoned, buf, chunk,
                   backend_thread_handle, backend_vars, client_shutdown,
                   backend_shutdown, backend_eof, client_wire, backend_wire,
                   history_vars>>

\* The chunk taken into buf whatever its length
ClientLock_NoCap ==
    /\ clientPc = "lock"
    /\ lock = "free"
    /\ IF poisoned
       THEN /\ clientPc' = "panicked"
            /\ UNCHANGED <<session_state, buf, client_shutdown, lock>>
       ELSE IF Len(chunk) = 0 \/ state = "Closed"
       THEN /\ client_shutdown' = TRUE
            /\ clientPc' = "join"
            /\ UNCHANGED <<session_state, buf, lock>>
       ELSE /\ buf' = buf \o chunk
            /\ UNCHANGED <<session_state, client_shutdown>>
            /\ lock' = "client"
            /\ clientPc' = "parse"
    /\ UNCHANGED <<main_vars, codec_vars, tracker_vars, elapsed, config, handshake_packet, disconnect_on_join, backend_addr,
                   backend_socket, client_send_buffer_len, backend_send_buffer,
                   backend_send_buffer_vlen, backend_send_buffer_len, poisoned,
                   chunk, backend_thread_handle, backend_vars, client_eof,
                   backend_shutdown, backend_eof, client_wire, backend_wire,
                   history_vars>>

\* ---- lines 102-117: the lock, the Closed check, the chunk into buf
ClientLock ==
    /\ clientPc = "lock"
    /\ lock = "free"
    /\ IF poisoned
       THEN /\ clientPc' = "panicked"
            /\ UNCHANGED <<session_state, buf, client_shutdown, lock>>
       ELSE IF Len(chunk) = 0 \/ state = "Closed"
       THEN /\ client_shutdown' = TRUE
            /\ clientPc' = "join"
            /\ UNCHANGED <<session_state, buf, lock>>
       ELSE /\ IF Len(buf) + Len(chunk) > client_buffer_size
               THEN /\ switch_state("Closed")
                    /\ client_shutdown' = TRUE
                    /\ buf' = buf
               ELSE /\ buf' = buf \o chunk
                    /\ UNCHANGED <<session_state, client_shutdown>>
            /\ lock' = "client"
            /\ clientPc' = "parse"
    /\ UNCHANGED <<main_vars, codec_vars, tracker_vars, elapsed, config, handshake_packet, disconnect_on_join, backend_addr,
                   backend_socket, client_send_buffer_len, backend_send_buffer,
                   backend_send_buffer_vlen, backend_send_buffer_len, poisoned,
                   chunk, backend_thread_handle, backend_vars, client_eof,
                   backend_shutdown, backend_eof, client_wire, backend_wire,
                   history_vars>>

\* The parse loop going on whatever the state
ParseGuard_AnyState == Len(buf) > 0

\* ---- line 120: the parse loop's condition
ParseGuard == Len(buf) > 0 /\ state # "Forward" /\ state # "Closed"

\* ---- lines 128-154: a packet in Handshake
HandleHandshake(packet, rest) ==
    IF packet.id = 0
    THEN LET hs == HandshakePacket_try_from(packet) IN
         IF hs.tag # "Some"
         THEN /\ PanicLocked
              /\ UNCHANGED <<buf, session_state, handshake_packet, client_shutdown>>
         ELSE /\ buf' = rest
              /\ handshake_packet' = Some(hs)
              /\ IF hs.next_state = "STATUS"
                 THEN switch_state("Status") /\ UNCHANGED client_shutdown
                 ELSE IF hs.next_state = "LOGIN"
                 THEN switch_state("Login") /\ UNCHANGED client_shutdown
                 ELSE switch_state("Closed") /\ client_shutdown' = TRUE
              /\ Continue
    ELSE /\ buf' = rest
         /\ Continue
         /\ UNCHANGED <<session_state, handshake_packet, client_shutdown>>

\* The Status response of lines 163-176.
StatusResponse ==
    [version |-> [name |-> VersionProtocolName, protocol |-> VERSION_PROTOCOL_CODE],
     players |-> [max |-> 20, online |-> 0],
     description |-> ChatData_new_colored(HelloWorld, ColorStatus)]

\* The status request handler reading the pending message without taking it
HandleStatusRequest_KeepsPending ==
    IF disconnect_on_join.tag = "Some"
    THEN /\ client_wire' = write_packet(
                create_disconnect_packet(ChatData_new(disconnect_on_join.val)))
         /\ switch_state("Closed")
         /\ client_shutdown' = TRUE
         /\ UNCHANGED disconnect_on_join
    ELSE /\ client_wire' = write_packet(MinecraftPacket_from_status(StatusResponse))
         /\ UNCHANGED <<disconnect_on_join, session_state, client_shutdown>>

\* ---- lines 156-180: a status request (id 0) in Status
HandleStatusRequest ==
    IF disconnect_on_join.tag = "Some"
    THEN /\ disconnect_on_join' = None
         /\ client_wire' = write_packet(
                create_disconnect_packet(ChatData_new(disconnect_on_join.val)))
         /\ switch_state("Closed")
         /\ client_shutdown' = TRUE
    ELSE /\ client_wire' = write_packet(MinecraftPacket_from_status(StatusResponse))
         /\ UNCHANGED <<disconnect_on_join, session_state, client_shutdown>>

\* The ping answered with a packet of id 1 that carries no timestamp
HandlePing_EmptyEcho(packet, rest) ==
    IF PingPacket_try_from(packet).tag # "Some"
    THEN /\ PanicLocked
         /\ UNCHANGED <<buf, client_wire>>
    ELSE /\ buf' = rest
         /\ client_wire' = write_packet(MinecraftPacket_new(1))
         /\ Continue

\* ---- lines 181-187: a ping (id 1) in Status
HandlePing(packet, rest) ==
    IF PingPacket_try_from(packet).tag # "Some"
    THEN /\ PanicLocked
         /\ UNCHANGED <<buf, client_wire>>
    ELSE /\ buf' = rest
         /\ client_wire' = write_packet(packet)
         /\ Continue

\* ---- lines 155-188: a packet in Status
HandleStatus(packet, rest) ==
    IF packet.id = 0
    THEN /\ HandleStatusRequest
         /\ buf' = rest
         /\ Continue
    ELSE IF packet.id = 1
    THEN /\ HandlePing(packet, rest)
         /\ UNCHANGED <<disconnect_on_join, session_state, client_shutdown>>
    ELSE /\ buf' = rest
         /\ Continue
         /\ UNCHANGED <<disconnect_on_join, session_state, client_shutdown, client_wire>>

\* str::parse::<SocketAddr> on an origin: an IPv4 address in dotted decimal, a
\* colon and a port; a host name is not resolved, it is an error.
IsDecimal(b, max) ==
    /\ Len(b) \in 1..5
    /\ \A i \in 1..Len(b) : b[i] \in 48..57
    /\ LET RECURSIVE val(_)
           val(n) == IF n = 0 THEN 0 ELSE val(n - 1) * 10 + (b[n] - 48)
       IN val(Len(b)) <= max

parse_socket_addr(origin) ==
    LET colons == {i \in 1..Len(origin) : origin[i] = 58}
        dots == {i \in 1..Len(origin) : origin[i] = 46}
        nth(S, k) == CHOOSE i \in S : Cardinality({j \in S : j < i}) = k - 1
    IN IF Cardinality(colons) = 1 /\ Cardinality(dots) = 3
          /\ (\A d \in dots : \A c \in colons : d < c)
       THEN LET c == nth(colons, 1)
                d1 == nth(dots, 1)
                d2 == nth(dots, 2)
                d3 == nth(dots, 3)
            IN IF /\ IsDecimal(SubSeq(origin, 1, d1 - 1), 255)
                  /\ IsDecimal(SubSeq(origin, d1 + 1, d2 - 1), 255)
                  /\ IsDecimal(SubSeq(origin, d2 + 1, d3 - 1), 255)
                  /\ IsDecimal(SubSeq(origin, d3 + 1, c - 1), 255)
                  /\ IsDecimal(SubSeq(origin, c + 1, Len(origin)), 65535)
               THEN [tag |-> "Ok", addr |-> origin]
               ELSE [tag |-> "Err"]
       ELSE [tag |-> "Err"]

\* The dial failure arm without the pending message
DialFailed_NoMessage ==
    /\ state' = "Status"
    /\ switched' = switched \o <<"Forward", "Status">>
    /\ UNCHANGED <<disconnect_on_join, client_wire, client_shutdown>>

\* The dial failure arm answering at once, the state still Forward
DialFailed_Replies ==
    /\ client_wire' =
           IF client_shutdown THEN client_wire
           ELSE Append(client_wire,
                       [src |-> "packet", st |-> "Forward",
                        bytes |-> encode(create_disconnect_packet(ChatData_new(BadGateway)))])
    /\ state' = "Status"
    /\ switched' = switched \o <<"Forward", "Status">>
    /\ disconnect_on_join' = Some(BadGateway)
    /\ UNCHANGED client_shutdown

\* The dial failure arm going back to Login
DialFailed_BackToLogin ==
    /\ state' = "Login"
    /\ switched' = switched \o <<"Forward", "Login">>
    /\ disconnect_on_join' = Some(BadGateway)
    /\ UNCHANGED <<client_wire, client_shutdown>>

\* ---- lines 219-225: the dial failed: back to Status, the message pending
\* (switch_state was called with Forward at line 196, and is with Status here)
DialFailed ==
    /\ state' = "Status"
    /\ switched' = switched \o <<"Forward", "Status">>
    /\ disconnect_on_join' = Some(BadGateway)
    /\ UNCHANGED <<client_wire, client_shutdown>>

\* ---- lines 196-227: the endpoint has an origin. The state is Forward while
\* the backend is dialed; what is left in buf goes to the front of
\* backend_send_buffer, whose filled length stays as it was.
LoginForward(origin, rest, dial_ok) ==
    IF backend_send_buffer_len + Len(rest) > backend_send_buffer_vlen
    THEN /\ PanicLocked
         /\ switch_state("Forward")
         /\ UNCHANGED <<buf, disconnect_on_join, backend_side, client_wire,
                        client_shutdown>>
    ELSE /\ backend_send_buffer' =
                vec_write(backend_send_buffer, backend_send_buffer_len, rest)
         /\ residual' = rest
         /\ buf' = <<>>
         /\ IF backend_thread_handle
            THEN /\ switch_state("Forward")
                 /\ Continue
                 /\ UNCHANGED <<disconnect_on_join, backend_addr, backend_socket,
                                backend_thread_handle, backendPc, dials,
                                client_wire, client_shutdown>>
            ELSE IF parse_socket_addr(origin).tag # "Ok"
            THEN \* line 206: origin.parse().unwrap() panics, the state Forward
                 /\ switch_state("Forward")
                 /\ PanicLocked
                 /\ UNCHANGED <<disconnect_on_join, backend_addr, backend_socket,
                                backend_thread_handle, backendPc, dials,
                                client_wire, client_shutdown>>
            ELSE /\ dials' = Append(dials, IF dial_ok THEN "Ok" ELSE "Err")
                 /\ Continue
                 /\ IF dial_ok
                    THEN /\ switch_state("Forward")
                         /\ backend_addr' = Some(parse_socket_addr(origin).addr)
                         /\ backend_socket' = Some("stream")
                         /\ backend_thread_handle' = TRUE
                         /\ backendPc' = "start"
                         /\ UNCHANGED <<disconnect_on_join, client_wire,
                                        client_shutdown>>
                    ELSE /\ DialFailed
                         /\ UNCHANGED <<backend_addr, backend_socket,
                                        backend_thread_handle, backendPc>>

\* The disconnect without the shutdown of the client socket
LoginDisconnect_NoShutdown(chat, rest) ==
    /\ client_wire' = write_packet(create_disconnect_packet(chat))
    /\ switch_state("Closed")
    /\ buf' = rest
    /\ Continue
    /\ UNCHANGED <<disconnect_on_join, backend_side, client_shutdown>>

\* ---- lines 228-243: no origin to dial: a disconnect packet, then Closed
LoginDisconnect(chat, rest) ==
    /\ client_wire' = write_packet(create_disconnect_packet(chat))
    /\ switch_state("Closed")
    /\ client_shutdown' = TRUE
    /\ buf' = rest
    /\ Continue
    /\ UNCHANGED <<disconnect_on_join, backend_side>>

\* ---- lines 189-244: a packet in Login
HandleLogin(rest, dial_ok) ==
    LET endpoint == find_endpoint(config, handshake_packet.val.server_address) IN
    IF endpoint.tag = "Some"
    THEN IF endpoint.val.origin.tag = "Some"
         THEN LoginForward(endpoint.val.origin.val, rest, dial_ok)
         ELSE LoginDisconnect(
                  ChatData_new_colored(
                      IF endpoint.val.message.tag = "Some"
                      THEN endpoint.val.message.val
                      ELSE ServerConfigurationError,
                      ColorDisconnect),
                  rest)
    ELSE LoginDisconnect(ChatData_new(HelloWorldBang), rest)

\* What the parse loop's last iteration did: the packet, and the session
\* right after its handler.
LastRec(kind, packet, err) ==
    [kind |-> kind, err |-> err,
     id |-> packet.id, data |-> packet.data, buffered |-> buf,
     before |-> state, after |-> state',
     pend_before |-> disconnect_on_join, pend_after |-> disconnect_on_join',
     hs |-> handshake_packet',
     wrote |-> SubSeq(client_wire', Len(client_wire) + 1, Len(client_wire')),
     shut |-> client_shutdown',
     dial |-> IF Len(dials') > Len(dials) THEN dials'[Len(dials')] ELSE "none",
     bsock |-> backend_socket', bthread |-> backendPc',
     left |-> buf']

NoPacket == [id |-> -1, data |-> <<>>]

\* The break that throws the buffered bytes away
ParseIncomplete_Discards ==
    /\ clientPc' = "flush"
    /\ buf' = <<>>
    /\ UNCHANGED <<lock, poisoned, session_state, handshake_packet,
                   disconnect_on_join, client_shutdown, client_wire,
                   backend_side>>

\* ---- lines 245-264: parse_packet returned an error: the loop is left, with
\* the lock still held
ParseIncomplete ==
    /\ clientPc' = "flush"
    /\ UNCHANGED <<lock, poisoned, buf, session_state, handshake_packet,
                   disconnect_on_join, client_shutdown, client_wire,
                   backend_side>>

\* ---- lines 120-265: one iteration of the parse loop
ClientParse ==
    /\ clientPc = "parse"
    /\ ParseGuard
    /\ LET res == parse_packet(buf) IN
       IF res.tag = "Ok"
       THEN LET rest == SubSeq(buf, res.len + 1, Len(buf)) IN
            /\ \E dial_ok \in BOOLEAN :
                 IF state = "Handshake"
                 THEN /\ HandleHandshake(res.packet, rest)
                      /\ UNCHANGED <<disconnect_on_join, client_wire, backend_side>>
                 ELSE IF state = "Status"
                 THEN /\ HandleStatus(res.packet, rest)
                      /\ UNCHANGED <<handshake_packet, backend_side>>
                 ELSE IF state = "Login"
                 THEN /\ HandleLogin(rest, dial_ok)
                      /\ UNCHANGED handshake_packet
                 ELSE /\ buf' = rest
                      /\ Continue
                      /\ UNCHANGED <<session_state, handshake_packet, disconnect_on_join,
                                     client_shutdown, client_wire, backend_side>>
            /\ last' = LastRec(IF clientPc' = "panicked" THEN "panic" ELSE "packet",
                               res.packet, "")
       ELSE IF res.tag = "Err"
       THEN /\ ParseIncomplete
            /\ last' = LastRec("error", NoPacket, res.err)
       ELSE /\ PanicLocked
            /\ UNCHANGED <<buf, session_state, handshake_packet, disconnect_on_join,
                           client_shutdown, client_wire, backend_side>>
            /\ last' = LastRec("panic", NoPacket, "")
    /\ UNCHANGED <<main_vars, codec_vars, tracker_vars, elapsed, config, client_send_buffer_len, backend_send_buffer_vlen,
                   backend_send_buffer_len, chunk, bbuf, bchunk, client_eof,
                   backend_shutdown, backend_eof, backend_wire, fwd_received,
                   backend_received, nClientChunks, nBackendChunks>>

\* ---- lines 267-282: after the parse loop, what is in buf goes to the backend
\* when the state is Forward; the lock is released at the end of the iteration
ClientFlush ==
    /\ lock = "client"
    /\ clientPc = "flush" \/ (clientPc = "parse" /\ ~ParseGuard)
    /\ IF state = "Forward"
          /\ backend_send_buffer_len + Len(buf) > backend_send_buffer_vlen
       THEN /\ PanicLocked
            /\ UNCHANGED <<buf, backend_send_buffer, backend_send_buffer_vlen,
                           backend_send_buffer_len, backend_wire>>
       ELSE LET moved == state = "Forward"
                front == IF moved
                         THEN vec_write(backend_send_buffer, backend_send_buffer_len, buf)
                         ELSE backend_send_buffer
                filled == IF moved THEN backend_send_buffer_len + Len(buf)
                          ELSE backend_send_buffer_len
            IN /\ buf' = IF moved THEN <<>> ELSE buf
               /\ IF filled > 0 /\ backend_socket.tag = "Some"
                  THEN /\ backend_wire' = IF backend_shutdown THEN backend_wire
                                          ELSE backend_wire \o resize(front, filled)
                       /\ backend_send_buffer' = <<>>
                       /\ backend_send_buffer_vlen' = 0
                       /\ backend_send_buffer_len' = 0
                  ELSE /\ backend_send_buffer' = front
                       /\ backend_send_buffer_len' = filled
                       /\ UNCHANGED <<backend_send_buffer_vlen, backend_wire>>
               /\ Unlock
               /\ clientPc' = "read"
               /\ UNCHANGED poisoned
    /\ UNCHANGED <<main_vars, codec_vars, tracker_vars, elapsed, config, session_state, handshake_packet, disconnect_on_join,
                   backend_addr, backend_socket, client_send_buffer_len, chunk,
                   backend_thread_handle, backend_vars, client_shutdown,
                   client_eof, backend_shutdown, backend_eof, client_wire,
                   history_vars>>

\* ---- lines 285-287: join the backend reader, if one was spawned
ClientJoin ==
    /\ clientPc = "join"
    /\ ~backend_thread_handle \/ backendPc \in {"done", "panicked"}
    /\ clientPc' = "done"
    /\ UNCHANGED <<main_vars, codec_vars, tracker_vars, elapsed, config, info_vars, lock, poisoned, buf, chunk,
                   backend_thread_handle, backend_vars, socket_vars, history_vars>>

\* ---- lines 293-298: the backend reader takes the lock for its stream
BackendStart ==
    /\ backendPc = "start"
    /\ lock = "free"
    /\ backendPc' = IF poisoned THEN "panicked" ELSE "read"
    /\ UNCHANGED <<main_vars, codec_vars, tracker_vars, elapsed, config, info_vars, lock, poisoned, client_vars, bbuf, bchunk,
                   socket_vars, history_vars>>

\* ---- the backend reader: stream.read(chunk)
BackendRecv ==
    /\ backendPc = "read"
    /\ ~backend_shutdown /\ ~backend_eof
    /\ nBackendChunks < MaxBackendChunks
    /\ \E c \in BackendChunks :
        /\ bchunk' = c
        /\ backend_received' =
               IF state = "Forward" THEN backend_received \o c ELSE backend_received
    /\ nBackendChunks' = nBackendChunks + 1
    /\ backendPc' = "lock"
    /\ UNCHANGED <<main_vars, codec_vars, tracker_vars, elapsed, config, info_vars, lock, poisoned, client_vars, bbuf,
                   socket_vars, last, residual, fwd_received, dials, nClientChunks>>

\* read returns Ok(0): the backend closed, or the socket was shut down
BackendRecvEof ==
    /\ backendPc = "read"
    /\ bchunk' = <<>>
    /\ backend_eof' = (backend_eof \/ ~backend_shutdown)
    /\ backendPc' = "lock"
    /\ UNCHANGED <<main_vars, codec_vars, tracker_vars, elapsed, config, info_vars, lock, poisoned, client_vars, bbuf,
                   client_shutdown, client_eof, backend_shutdown, client_wire,
                   backend_wire, history_vars>>

\* read returns Err: the while-let loop ends
BackendRecvErr ==
    /\ backendPc = "read"
    /\ ~backend_shutdown /\ ~backend_eof
    /\ backend_eof' = TRUE
    /\ backendPc' = "done"
    /\ UNCHANGED <<main_vars, codec_vars, tracker_vars, elapsed, config, info_vars, lock, poisoned, client_vars, bbuf, bchunk,
                   client_shutdown, client_eof, backend_shutdown, client_wire,
                   backend_wire, history_vars>>

\* ---- line 308: the backend reader takes the lock for its chunk
BackendLock ==
    /\ backendPc = "lock"
    /\ lock = "free"
    /\ IF poisoned
       THEN backendPc' = "panicked" /\ UNCHANGED lock
       ELSE backendPc' = "process" /\ lock' = "backend"
    /\ UNCHANGED <<main_vars, codec_vars, tracker_vars, elapsed, config, info_vars, poisoned, client_vars, bbuf, bchunk,
                   socket_vars, history_vars>>

\* ---- lines 310-342: the backend reader's chunk, under the lock
BackendProcess ==
    /\ backendPc = "process"
    /\ Unlock
    /\ IF Len(bchunk) = 0 \/ state = "Closed"
       THEN /\ backend_shutdown' = TRUE
            /\ backendPc' = "done"
            /\ UNCHANGED <<session_state, bbuf, client_send_buffer_len, client_shutdown,
                           client_wire>>
       ELSE LET over == Len(bbuf) + Len(bchunk) > backend_buffer_size
                b1 == IF over THEN bbuf ELSE bbuf \o bchunk
            IN /\ IF over THEN switch_state("Closed") ELSE UNCHANGED session_state
               /\ backend_shutdown' = (backend_shutdown \/ over)
               /\ client_shutdown' = (client_shutdown \/ over)
               /\ IF state' = "Forward"
                  THEN /\ client_wire' =
                            IF client_shutdown' THEN client_wire
                            ELSE Append(client_wire,
                                    [src |-> "relay", st |-> state',
                                     bytes |-> resize(<<>>, client_send_buffer_len) \o b1])
                       /\ bbuf' = <<>>
                       /\ client_send_buffer_len' = 0
                  ELSE /\ bbuf' = b1
                       /\ UNCHANGED <<client_wire, client_send_buffer_len>>
               /\ backendPc' = "read"
    /\ UNCHANGED <<main_vars, codec_vars, tracker_vars, elapsed, config, handshake_packet, disconnect_on_join, backend_addr,
                   backend_socket, backend_send_buffer, backend_send_buffer_vlen,
                   backend_send_buffer_len, poisoned, client_vars, bchunk,
                   client_eof, backend_eof, backend_wire, history_vars>>

Next ==
    \/ ClientRecv \/ ClientRecvEof \/ ClientRecvErr
    \/ ClientLock \/ ClientParse \/ ClientFlush \/ ClientJoin
    \/ BackendStart
    \/ BackendRecv \/ BackendRecvEof \/ BackendRecvErr
    \/ BackendLock \/ BackendProcess

Spec == Init /\ [][Next]_vars

\* The two reader threads are scheduled: a step of the proxy's own that can be
\* taken is taken. Nothing makes a peer send, close or fail, so the reads get
\* no such condition.
\* For the parse loop the condition is spelled with the loop's own: an
\* iteration shortens buf or leaves the loop, so the loop that goes on when it
\* can is the loop that is left again and again.
Fairness ==
    /\ WF_vars(ClientLock)
    /\ []<>~(clientPc = "parse" /\ ParseGuard)
    /\ WF_vars(ClientFlush)
    /\ WF_vars(ClientJoin)
    /\ WF_vars(BackendStart) /\ WF_vars(BackendLock) /\ WF_vars(BackendProcess)

SpecFair == Spec /\ Fairness

\* ---- lines 83-98: time passes; the readers set no timer and no read timeout,
\* and nothing reads settings.handshake_timeout or last_activity
Tick ==
    /\ elapsed <= handshake_timeout
    /\ elapsed' = elapsed + 1
    /\ UNCHANGED <<main_vars, codec_vars, tracker_vars, config, info_vars, lock, poisoned,
                   client_vars, backend_vars, socket_vars, history_vars>>

NextClock == Next \/ Tick

SpecClock == Init /\ [][NextClock]_vars

\* ------------------------------------------------------------ the codec alone
\* Each behaviour applies one codec function to one input, as a unit test does.
\* The packet ids and the payloads the framer is tried on.
PacketIds ==
    {0, 1, 2, 127, 128, 255, 16383, 16384, 2097151, 2097152, 268435455,
     268435456, MaxI32, -1, -2, -128, -65536, MinI32}

LongPayload == [i \in 1..130 |-> (i * 7) % 256]

\* 253 bytes: with an id of one byte the packet's length field is 254, whose
\* varint is the two bytes 0xFE 0x01.
Payload253 == [i \in 1..253 |-> (i * 3) % 256]

Payloads ==
    {<<>>, LongPayload, Payload253}
    \cup {<<a>> : a \in {0, 1, 127, 128, 254, 255}}
    \cup {<<a, b>> : a, b \in {0, 1, 254, 255}}

\* packet.rs lines 207-219: a packet is encoded and the encoding is parsed
EncodeThenParse ==
    \E id \in PacketIds, data \in Payloads :
        /\ codec_in.op = "none"
        /\ codec_in' = [op |-> "packet", id |-> id, data |-> data]
        /\ codec_out' = [op |-> "packet",
                         enc |-> encode(Pkt(id, data)),
                         dec |-> parse_packet(encode(Pkt(id, data)))]
        /\ UNCHANGED <<proxy_vars, main_vars, tracker_vars>>

\* packet.rs lines 67-107 on what a reader holds when only the first k bytes
\* of an encoded packet have arrived
ParsePrefix ==
    \E id \in PacketIds, data \in Payloads :
        LET enc == encode(Pkt(id, data)) IN
        \E k \in 0..(Len(enc) - 1) :
            /\ codec_in.op = "none"
            /\ codec_in' = [op |-> "prefix", id |-> id, data |-> data, k |-> k]
            /\ codec_out' = [op |-> "prefix", enc |-> enc,
                             dec |-> parse_packet(SubSeq(enc, 1, k))]
            /\ UNCHANGED <<proxy_vars, main_vars, tracker_vars>>

\* The integers the varint codec is tried on: those of the test, and the ends
\* of every encoded width.
VarInts ==
    {0, 100, -100, 255, -255, MinI32, MaxI32,
     1, 127, 128, 16383, 16384, 2097151, 2097152, 268435455, 268435456,
     -1, -128, -268435456, -268435457, -2147483647}

\* The vectors written into: empty, or holding earlier bytes.
VarIntVecs ==
    {<<>>, <<255, 255>>, <<0, 0, 0, 0, 0, 0, 0, 0>>,
     <<255, 255, 255, 255, 255, 255, 255, 255>>}

\* writer.rs lines 117-129: an integer is written at an offset of a vector
\* that reaches it, and read back at that offset
WriteThenRead ==
    \E i \in VarInts, vec \in VarIntVecs, offset \in 0..2 :
        /\ codec_in.op = "none"
        /\ offset <= Len(vec)
        /\ codec_in' = [op |-> "int", val |-> i, vec |-> vec, offset |-> offset]
        /\ codec_out' = [op |-> "int",
                         written |-> write_int(vec, i, offset),
                         read |-> read_int(write_int(vec, i, offset).vec, offset)]
        /\ UNCHANGED <<proxy_vars, main_vars, tracker_vars>>

\* proxy.rs lines 120-127 and 245-265: the parse loop as the framer alone sees
\* it, while the handlers leave the state one the loop parses in. It takes
\* packets off the front of b until parse_packet returns an error or panics.
RECURSIVE parse_loop(_, _)
parse_loop(b, packets) ==
    IF Len(b) = 0
    THEN [packets |-> packets, buf |-> b, closed |-> FALSE, panic |-> FALSE]
    ELSE LET res == parse_packet(b) IN
         IF res.tag = "Ok"
         THEN parse_loop(SubSeq(b, res.len + 1, Len(b)),
                         Append(packets, [id |-> res.packet.id,
                                          data |-> res.packet.data]))
         ELSE [packets |-> packets, buf |-> b, closed |-> FALSE,
               panic |-> res.tag = "panic"]

\* A reader that has received nothing
NoneReceived == [packets |-> <<>>, buf |-> <<>>, closed |-> FALSE, panic |-> FALSE]

\* proxy.rs lines 109-127: one received chunk goes into buf, unless it does not
\* fit, and the parse loop runs
receive(r, c) ==
    IF r.closed \/ r.panic THEN r
    ELSE IF Len(r.buf) + Len(c) > client_buffer_size
    THEN [r EXCEPT !.closed = TRUE]
    ELSE parse_loop(r.buf \o c, r.packets)

\* The same bytes, short enough for buf, received in one chunk and in two
SplitStream ==
    \E c1 \in ClientChunks, c2 \in ClientChunks :
        LET stream == c1 \o c2 IN
        \E k \in 1..(Len(stream) - 1) :
            /\ codec_in.op = "none"
            /\ Len(stream) <= client_buffer_size
            /\ codec_in' = [op |-> "split", stream |-> stream, k |-> k]
            /\ codec_out' =
                   [op |-> "split",
                    whole |-> receive(NoneReceived, stream),
                    parts |-> receive(receive(NoneReceived, SubSeq(stream, 1, k)),
                                      SubSeq(stream, k + 1, Len(stream)))]
            /\ UNCHANGED <<proxy_vars, main_vars, tracker_vars>>

\* The buffers the framer is tried on: every buffer of up to three bytes over
\* a few values, and buffers whose length field is negative (five bytes).
BufferBytes == {0, 1, 2, 3, 127, 128, 254, 255}

NegativeLengths ==
    { write_int(<<>>, n, 0).vec : n \in {-1, -2, -5, -6, MinI32} }

Buffers ==
    {<<>>}
    \cup {<<a>> : a \in BufferBytes}
    \cup {<<a, b>> : a, b \in BufferBytes}
    \cup {<<a, b, c>> : a, b, c \in BufferBytes}
    \cup {l \o <<a>> : l \in NegativeLengths, a \in {0, 128}}
    \cup {l \o <<a, 7, 8, 9, 10, 11>> : l \in NegativeLengths, a \in {0, 128}}

\* packet.rs lines 67-107 on any buffered bytes, as the parse loop calls it
ParseBuffer ==
    \E b \in Buffers :
        /\ codec_in.op = "none"
        /\ codec_in' = [op |-> "buffer", buf |-> b]
        /\ codec_out' = [op |-> "buffer", dec |-> parse_packet(b)]
        /\ UNCHANGED <<proxy_vars, main_vars, tracker_vars>>

NextCodec ==
    EncodeThenParse \/ ParsePrefix \/ WriteThenRead \/ SplitStream \/ ParseBuffer

SpecCodec == Init /\ [][NextCodec]_vars

\* ------------------------------------------------------------ main.rs
\* ---- line 38: the test that admits a connection
UnderLimit_Inclusive(n) == n <= clients_limit

UnderLimit(n) == n < clients_limit

\* A session that holds a slot: its thread runs the handler, or is about to
\* give the slot back.
Live(i) == conns[i] \in {"running", "returned"}

\* ---- lines 36-38: accept, then connections.load(Ordering::Relaxed), which
\* may return any value the counter had since main's own last fetch_add
MainAccept ==
    /\ mainPc = "accept"
    /\ Len(conns) < MaxAccepts
    /\ \E v \in seen : loaded' = v
    /\ mainPc' = "check"
    /\ UNCHANGED <<proxy_vars, codec_vars, tracker_vars, connections, seen, conns>>

\* ---- lines 39-62: fetch_add, and the session's thread is spawned
MainAdmit ==
    /\ mainPc = "check"
    /\ UnderLimit(loaded)
    /\ connections' = connections + 1
    /\ seen' = {connections + 1}
    /\ conns' = Append(conns, "running")
    /\ mainPc' = "accept"
    /\ UNCHANGED <<proxy_vars, codec_vars, tracker_vars, loaded>>

\* ---- lines 63-66: the stream is shut down
MainRefuse ==
    /\ mainPc = "check"
    /\ ~UnderLimit(loaded)
    /\ conns' = Append(conns, "refused")
    /\ mainPc' = "accept"
    /\ UNCHANGED <<proxy_vars, codec_vars, tracker_vars, connections, seen, loaded>>

\* ---- line 59: the handler returns
SessionReturn(i) ==
    /\ conns[i] = "running"
    /\ conns' = [conns EXCEPT ![i] = "returned"]
    /\ UNCHANGED <<proxy_vars, codec_vars, tracker_vars, connections, seen, mainPc, loaded>>

\* ---- lines 43, 59: try_clone().unwrap() or the handler panics: the thread
\* unwinds and never reaches line 61
SessionPanic(i) ==
    /\ conns[i] = "running"
    /\ conns' = [conns EXCEPT ![i] = "panicked"]
    /\ UNCHANGED <<proxy_vars, codec_vars, tracker_vars, connections, seen, mainPc, loaded>>

\* ---- line 61: fetch_sub
SessionExit(i) ==
    /\ conns[i] = "returned"
    /\ connections' = connections - 1
    /\ seen' = seen \cup {connections - 1}
    /\ conns' = [conns EXCEPT ![i] = "ended"]
    /\ UNCHANGED <<proxy_vars, codec_vars, tracker_vars, mainPc, loaded>>

NextMain ==
    \/ MainAccept \/ MainAdmit \/ MainRefuse
    \/ \E i \in 1..Len(conns) : SessionReturn(i) \/ SessionPanic(i) \/ SessionExit(i)

SpecMain == Init /\ [][NextMain]_vars

\* ------------------------------------------------------------ socket_tracker.rs
\* retain that also drops the entries registered after id
retain_UpTo(v, id) ==
    LET Keep(e) == e.id < id IN SelectSeq(v, Keep)

\* ---- line 27: sockets.retain(|(socket_id, _)| *socket_id != id)
retain(v, id) ==
    LET Keep(e) == e.id # id IN SelectSeq(v, Keep)

\* SocketTracker::size
size == Len(sockets)

\* ---- line 19: add_socket takes its id: self.id.fetch_add(1, SeqCst)
add_socket_fetch_add(t) ==
    /\ adding[t].tag = "None"
    /\ tracker_id < MaxIds
    /\ adding' = [adding EXCEPT ![t] = Some(tracker_id)]
    /\ tracker_id' = tracker_id + 1
    /\ UNCHANGED <<proxy_vars, main_vars, codec_vars, sockets, returned, added,
                   unregistered>>

\* ---- lines 20-22: add_socket locks the registry, pushes (id, weak) and
\* returns id. The weak reference is known by the thread whose session it is.
add_socket_push(t) ==
    /\ adding[t].tag = "Some"
    /\ LET entry == [id |-> adding[t].val, socket |-> t] IN
       /\ sockets' = Append(sockets, entry)
       /\ added' = added \cup {entry}
       /\ returned' = Append(returned, entry.id)
    /\ adding' = [adding EXCEPT ![t] = None]
    /\ UNCHANGED <<proxy_vars, main_vars, codec_vars, tracker_id, unregistered>>

\* ---- lines 25-28: remove_socket(id), by a thread that is not inside
\* add_socket, for an id that may or may not be registered
remove_socket(t, id) ==
    /\ adding[t].tag = "None"
    /\ sockets' = retain(sockets, id)
    /\ unregistered' =
           IF \E e \in added : e.id = id THEN unregistered \cup {id}
           ELSE unregistered
    /\ UNCHANGED <<proxy_vars, main_vars, codec_vars, tracker_id, adding, returned,
                   added>>

NextTracker ==
    \E t \in 1..TrackerThreads :
        \/ add_socket_fetch_add(t)
        \/ add_socket_push(t)
        \/ \E id \in 0..(MaxIds - 1) : remove_socket(t, id)

SpecTracker == Init /\ [][NextTracker]_vars

\* ------------------------------------------------------------ properties
IsPrefix(a, b) == Len(a) <= Len(b) /\ SubSeq(b, 1, Len(a)) = a
IsSuffix(a, b) == Len(a) <= Len(b) /\ SubSeq(b, Len(b) - Len(a) + 1, Len(b)) = a

\* The bytes of the writes to the client socket that come from `src`.
RECURSIVE WireBytes(_, _)
WireBytes(wire, src) ==
    IF wire = <<>> THEN <<>>
    ELSE (IF Head(wire).src = src THEN Head(wire).bytes ELSE <<>>)
         \o WireBytes(Tail(wire), src)

\* The parse loop's last iteration handled a packet (its handler returned).
Handled(st) == last.kind = "packet" /\ last.before = st

\* Neither peer closed and neither socket was shut down.
BothOpen == ~client_eof /\ ~client_shutdown /\ ~backend_eof /\ ~backend_shutdown

\* The next_state field of the Handshake packet last handled.
LastNextState == HandshakeFields(Pkt(last.id, last.data)).f4

\* C1: a well-formed Handshake packet (id 0) handled in Handshake leaves the
\* session in Status iff next_state = 1, in Login iff next_state = 2, and in
\* Closed with the client socket shut down for every other value.
C1_NextStateDecides ==
    (Handled("Handshake") /\ last.id = 0) =>
        /\ (last.after = "Status") <=> (LastNextState = 1)
        /\ (last.after = "Login") <=> (LastNextState = 2)
        /\ (LastNextState \notin {1, 2}) => (last.after = "Closed" /\ last.shut)

\* C2: the bytes that followed the triggering packet in its chunk reach the
\* backend before any client bytes of a later chunk: once the proxy has written
\* to the backend, what it wrote starts with them.
C2_ResidualFirst ==
    (state = "Forward" /\ backend_socket.tag = "Some" /\ clientPc = "read"
        /\ BothOpen /\ backend_wire # <<>>)
    => IsPrefix(residual, backend_wire)

\* C3: in Forward, while both sides stay open, the client reader is reading and
\* the bytes written to the backend end with the chunks received from the
\* client since Forward, in their order, whenever no chunk is being processed.
C3_ClientRelayInOrder ==
    (state = "Forward" /\ backend_socket.tag = "Some" /\ BothOpen
        /\ clientPc \notin {"lock", "parse", "flush"})
    => (clientPc = "read" /\ IsSuffix(fwd_received, backend_wire))

\* C4: in Forward, while both sides stay open, the bytes the backend reader
\* wrote to the client are the chunks received from the backend, in their
\* order, whenever no chunk is being processed.
C4_BackendRelayInOrder ==
    (state = "Forward" /\ BothOpen /\ backendPc \notin {"lock", "process"})
    => WireBytes(client_wire, "relay") = backend_received

\* A reply, decoded: the framed packet and the one string of its payload.
Reply(bytes) ==
    LET r == parse_packet(bytes) IN
    IF r.tag = "Ok" /\ r.len = Len(bytes)
    THEN LET str == read_string(r.packet.data, 0) IN
         IF str.tag = "Some" /\ str.len = Len(r.packet.data)
         THEN [ok |-> TRUE, id |-> r.packet.id, json |-> str.val]
         ELSE [ok |-> FALSE, id |-> r.packet.id, json |-> <<>>]
    ELSE [ok |-> FALSE, id |-> -1, json |-> <<>>]

\* A chat document, '{' text [ '|' color ] '}', and its text.
IsChatJson(j) ==
    /\ Len(j) >= 2 /\ j[1] = 123 /\ j[Len(j)] = 125
    /\ \A i \in 2..(Len(j) - 1) : j[i] # 123 /\ j[i] # 125
ChatText(j) ==
    LET bars == {i \in 2..(Len(j) - 1) : j[i] = 124}
        end == IF bars = {} THEN Len(j) ELSE CHOOSE i \in bars : \A k \in bars : i <= k
    IN SubSeq(j, 2, end - 1)

IsDisconnect(bytes) ==
    LET r == Reply(bytes) IN r.ok /\ r.id = 0 /\ IsChatJson(r.json)

IsStatusResponse(bytes) ==
    LET r == Reply(bytes) IN
    r.ok /\ r.id = 0 /\ ~IsChatJson(r.json)
         /\ IsPrefix(<<123>> \o VersionProtocolName, r.json)

\* The routing table has no origin to dial for `host`: no entry has that
\* hostname, or the first that has it has no origin.
NoOriginFor(host) ==
    LET hits == {i \in 1..Len(config) : config[i].hostname = host} IN
    \/ hits = {}
    \/ config[CHOOSE i \in hits : \A k \in hits : i <= k].origin.tag = "None"

\* C5: when the Login handler runs for a host with no origin to dial, exactly
\* one disconnect packet (id 0) is written to the client, no backend is dialed,
\* and the session is Closed with the client socket shut down.
C5_NoOriginDisconnects ==
    (Handled("Login") /\ NoOriginFor(last.hs.val.server_address)) =>
        /\ Len(last.wrote) = 1
        /\ IsDisconnect(last.wrote[1].bytes)
        /\ last.dial = "none"
        /\ last.bsock.tag = "None"
        /\ last.after = "Closed"
        /\ last.shut

C5_Witness ==
    /\ Handled("Login") /\ NoOriginFor(last.hs.val.server_address)
    /\ last.hs.val.server_address = HostB
    /\ Len(last.wrote) = 1
    /\ ChatText(Reply(last.wrote[1].bytes).json) = MessageB
    /\ state = "Closed"

\* C6: when the backend dial fails in the Login handler, the step ends in Status
\* with the pending-disconnect message "Bad Gateway", no backend socket recorded
\* and no backend reader spawned.
C6_DialFailureRegresses ==
    (Handled("Login") /\ last.dial = "Err") =>
        /\ last.after = "Status"
        /\ last.pend_after = Some(BadGateway)
        /\ last.bsock.tag = "None"
        /\ last.bthread = "none"
        /\ Len(last.wrote) = 0

C6_Witness ==
    /\ Handled("Login") /\ last.dial = "Err"
    /\ state = "Status" /\ disconnect_on_join = Some(BadGateway)

\* C7: in Status with a pending-disconnect message, a status request (id 0) is
\* answered with exactly one disconnect packet carrying that message and no
\* Status response; the message is cleared and the session is Closed.
C7_PendingDisconnectServed ==
    (Handled("Status") /\ last.id = 0 /\ last.pend_before.tag = "Some") =>
        /\ Len(last.wrote) = 1
        /\ IsDisconnect(last.wrote[1].bytes)
        /\ ChatText(Reply(last.wrote[1].bytes).json) = last.pend_before.val
        /\ last.pend_after.tag = "None"
        /\ last.after = "Closed"

C7_Witness ==
    /\ Handled("Status") /\ last.id = 0 /\ last.pend_before = Some(BadGateway)
    /\ Len(client_wire) = 1
    /\ state = "Closed"

\* C8: in Status with no pending-disconnect message, a status request (id 0) is
\* answered with exactly one Status response packet (id 0) and the session
\* stays in Status, whatever the routing table holds.
C8_StatusRequestAnswered ==
    (Handled("Status") /\ last.id = 0 /\ last.pend_before.tag = "None") =>
        /\ Len(last.wrote) = 1
        /\ IsStatusResponse(last.wrote[1].bytes)
        /\ last.after = "Status"
        /\ ~last.shut

\* Three requests in a row, each answered.
C8_Witness ==
    /\ Handled("Status") /\ last.id = 0 /\ last.pend_before.tag = "None"
    /\ Len(client_wire) = 3
    /\ \A i \in 1..3 : IsStatusResponse(client_wire[i].bytes)
    /\ state = "Status"

\* C9: in Status, a Ping packet (id 1, its timestamp decodable) is answered
\* with exactly one packet with id 1 whose payload is the ping's payload, and
\* the session stays in Status.
C9_PingEchoed ==
    (Handled("Status") /\ last.id = 1) =>
        /\ Len(last.wrote) = 1
        /\ LET r == parse_packet(last.wrote[1].bytes) IN
           /\ r.tag = "Ok"
           /\ r.len = Len(last.wrote[1].bytes)
           /\ r.packet.id = 1
           /\ r.packet.data = last.data
        /\ last.after = "Status"

\* Two pings echoed in a row, the second with a ten-byte timestamp.
C9_Witness ==
    /\ Handled("Status") /\ last.id = 1
    /\ Len(client_wire) = 2
    /\ client_wire[1].bytes = Ping
    /\ client_wire[2].bytes = PingNeg
    /\ last.wrote = <<client_wire[2]>>
    /\ state = "Status"

\* C10: what is written to the client socket while the state is Forward is
\* relayed from the backend: no packet handler's reply.
C10_ForwardWritesAreRelayed ==
    \A i \in 1..Len(client_wire) :
        client_wire[i].st = "Forward" => client_wire[i].src = "relay"

\* In Forward the client sent a status request, which went to the backend, and
\* the backend's bytes went to the client.
C10_Witness ==
    /\ state = "Forward"
    /\ clientPc = "read"
    /\ IsSuffix(StatusRequest, backend_wire)
    /\ WireBytes(client_wire, "relay") # <<>>
    /\ WireBytes(client_wire, "packet") = <<>>

\* C11: whenever the session record says Forward, its backend socket is set.
C11_ForwardHasBackendSocket ==
    state = "Forward" => backend_socket.tag = "Some"

\* C12: once the state is Closed no step changes it, no packet handler runs
\* and nothing more is written to the client.
C12_ClosedIsAbsorbing ==
    [][state = "Closed" =>
          (state' = "Closed" /\ client_wire' = client_wire /\ last' = last)]_vars

\* Closed by a handler with a whole packet still in buf, and both readers gone.
C12_Witness ==
    /\ state = "Closed"
    /\ last.kind = "packet" /\ last.after = "Closed"
    /\ last.left = StatusRequest
    /\ clientPc = "done"

\* C13: after switch_state was called with Forward, it is called with no state
\* but Closed.
C13_NoWayBackFromForward ==
    \A i, j \in 1..Len(switched) :
        (i < j /\ switched[i] = "Forward") => switched[j] = "Closed"

\* C14: a step that makes the state Closed leaves the client socket shut down
\* and, when a backend was dialed, the backend socket shut down too.
C14_ClosedShutsBothSockets ==
    [][(state # "Closed" /\ state' = "Closed") =>
          /\ client_shutdown'
          /\ (backend_socket'.tag = "Some" => backend_shutdown')]_vars

\* C15: with a backend dialed, a reader that left its read loop (its read
\* returned end-of-stream or an error) leaves the session Closed and both
\* sockets shut down.
C15_ReadEndClosesSession ==
    (backend_socket.tag = "Some" /\ ~poisoned
        /\ (clientPc \in {"join", "done"} \/ backendPc = "done"))
    => (state = "Closed" /\ client_shutdown /\ backend_shutdown)

\* C16: a chunk that does not fit in buf with the bytes already there closes
\* the session and shuts the client socket down, nothing is written to the
\* client and buf keeps its bytes; buf never holds more than client_buffer_size.
C16_OverflowCloses ==
    /\ [](Len(buf) <= client_buffer_size)
    /\ [][(clientPc = "lock" /\ clientPc' = "parse"
             /\ Len(buf) + Len(chunk) > client_buffer_size) =>
            /\ state' = "Closed"
            /\ client_shutdown'
            /\ client_wire' = client_wire
            /\ buf' = buf]_vars

\* Closed by the overflow before any packet was parsed.
C16_Witness ==
    /\ state = "Closed" /\ switched = <<"Closed">>
    /\ last.kind = "error"
    /\ buf = Junk /\ chunk = Junk
    /\ client_shutdown /\ client_wire = <<>>

\* C17: the sessions holding a slot are never more than clients_limit, and a
\* connection main finds the counter at or above clients_limit for is refused:
\* no session is spawned and the counter is left as it is.
C17_ClientsLimit ==
    /\ [](Cardinality({i \in 1..Len(conns) : Live(i)}) <= clients_limit)
    /\ []((connections >= 0) /\ (connections <= clients_limit))
    /\ [][(mainPc = "check" /\ mainPc' = "accept" /\ loaded >= clients_limit) =>
            (conns' = Append(conns, "refused") /\ connections' = connections)]_vars

\* A connection refused with every slot held, after a session gave its slot
\* back and the slot was taken again.
C17_Witness ==
    /\ \E i \in 1..Len(conns) : conns[i] = "ended"
    /\ conns[Len(conns)] = "refused"
    /\ Cardinality({i \in 1..Len(conns) : Live(i)}) = clients_limit
    /\ connections = clients_limit

\* C18: more than handshake_timeout milliseconds after the accept, the session
\* is not in Handshake any more.
C18_HandshakeTimeout ==
    elapsed > handshake_timeout => state # "Handshake"

\* C19: in Handshake, Status and Login, when buf is exactly 0xFE 0x01 the two
\* bytes are consumed, nothing is written to the client, no backend is dialed
\* and the state stays as it is.
C19_LegacyPingIgnored ==
    (last.kind = "packet" /\ last.buffered = LegacyPing
        /\ last.before \in {"Handshake", "Status", "Login"})
    => /\ last.left = <<>>
       /\ last.wrote = <<>>
       /\ last.dial = "none"
       /\ last.after = last.before

\* C20: a packet encoded and parsed back has its id and its payload, and the
\* parse consumes the whole encoding.
C20_EncodeParseRoundTrip ==
    codec_in.op = "packet" =>
        /\ codec_out.dec.tag = "Ok"
        /\ codec_out.dec.packet.id = codec_in.id
        /\ codec_out.dec.packet.data = codec_in.data
        /\ codec_out.dec.len = Len(codec_out.enc)

\* A negative id, five bytes long, before a payload that needs a length of
\* two bytes.
C20_Witness ==
    /\ codec_in.op = "packet"
    /\ codec_in.id = MinI32
    /\ codec_in.data = LongPayload
    /\ codec_out.dec.tag = "Ok"
    /\ Len(codec_out.enc) = 2 + 5 + 130

\* C21: parse_packet on a proper prefix of an encoded packet returns
\* EmptyBuffer or PacketFormatError: no packet, and no panic.
C21_PrefixIsRecoverable ==
    codec_in.op = "prefix" =>
        /\ codec_out.dec.tag = "Err"
        /\ codec_out.dec.err \in {"EmptyBuffer", "PacketFormatError"}

\* C22: an i32 written as a varint and read back at the same offset is the
\* integer written, the read consumes the bytes the write produced, and they
\* are at most five.
C22_VarIntRoundTrip ==
    codec_in.op = "int" =>
        /\ codec_out.read.tag = "Some"
        /\ codec_out.read.val = codec_in.val
        /\ codec_out.read.len = codec_out.written.len
        /\ codec_out.written.len \in 1..5

\* INT32_MIN written over earlier bytes that all carry the continuation bit.
C22_Witness ==
    /\ codec_in.op = "int"
    /\ codec_in.val = MinI32
    /\ codec_in.offset = 2
    /\ Len(codec_in.vec) = 8 /\ codec_in.vec[8] = 255
    /\ codec_out.written.len = 5
    /\ codec_out.written.vec = <<255, 255, 128, 128, 128, 128, 8, 255>>
    /\ codec_out.read.val = MinI32

\* The packet of the parse loop's last iteration does not decode as the typed
\* view its state expects: a Handshake in Handshake, a Ping in Status.
LastUndecodable ==
    /\ last.kind \in {"packet", "panic"}
    /\ \/ /\ last.before = "Handshake" /\ last.id = 0
          /\ HandshakePacket_try_from(Pkt(last.id, last.data)).tag # "Some"
       \/ /\ last.before = "Status" /\ last.id = 1
          /\ PingPacket_try_from(Pkt(last.id, last.data)).tag # "Some"

\* C23: a framed packet whose payload does not decode as the typed view of the
\* current state leaves the session Closed, and no reply is written.
C23_UndecodableCloses ==
    LastUndecodable => (last.after = "Closed" /\ last.wrote = <<>>)

\* C24: a session brought to Login by the client's first chunk leaves it for
\* Forward, Status or Closed by the proxy's own steps, before the client sends
\* anything more or closes.
C24_LoginHandledUnprompted ==
    (state = "Login" /\ nClientChunks = 1)
        ~> (state \in {"Forward", "Status", "Closed"}
               \/ nClientChunks > 1 \/ client_eof)

\* C25: the counter is the number of admitted sessions that have not ended:
\* each gives its slot back, however it ends.
C25_CounterCountsUnfinished ==
    connections = Cardinality({i \in 1..Len(conns) : Live(i)})

\* C26: the packets a reader takes from the client's bytes, and what is left
\* in buf, are the same whether the bytes come in one chunk or in two.
C26_SplitIndependent ==
    codec_in.op = "split" => codec_out.whole = codec_out.parts

\* What an incomplete packet must leave as it is.
Kept == <<state, handshake_packet, disconnect_on_join, buf, client_wire,
          backend_wire>>

\* C27: when parse_packet returns EmptyBuffer or PacketFormatError on the
\* buffered bytes, the client reader leaves the parse loop and goes back to
\* its read, releasing the lock; the state, the stored handshake, the pending
\* message and buf stay as they are and nothing is written to either socket.
C27_IncompleteInputKeepsAll ==
    /\ [][(clientPc = "parse" /\ ParseGuard /\ parse_packet(buf).tag = "Err"
              /\ clientPc' # clientPc)
            => (clientPc' = "flush" /\ UNCHANGED Kept)]_vars
    /\ [][(clientPc = "flush" /\ clientPc' # clientPc)
            => (clientPc' = "read" /\ lock' = "free" /\ UNCHANGED Kept)]_vars

\* A dial failed, the message is pending, and the start of a packet waits in
\* buf for its rest.
C27_Witness ==
    /\ last.kind = "error" /\ last.err = "PacketFormatError"
    /\ clientPc = "read" /\ lock = "free"
    /\ state = "Status"
    /\ handshake_packet.tag = "Some"
    /\ disconnect_on_join = Some(BadGateway)
    /\ buf = Junk
    /\ client_wire = <<>> /\ backend_wire = <<>>

\* C28: a reader holds the lock only between receiving a chunk and going back
\* to its read: the client reader while it parses and flushes, the backend
\* reader while it processes. A reader in its read holds no lock, so the other
\* reader's chunk is never kept waiting by it.
C28_NoLockAcrossRead ==
    /\ lock = "client" => clientPc \in {"parse", "flush"}
    /\ lock = "backend" => backendPc = "process"
    /\ clientPc \in {"parse", "flush"} => lock = "client"
    /\ backendPc = "process" => lock = "backend"
    /\ (clientPc = "read" /\ backendPc = "lock") => lock = "free"
    /\ (backendPc = "read" /\ clientPc = "lock") => lock = "free"

\* The client reader, back in its read after relaying a chunk, while the
\* backend reader processes one under the lock.
C28_Witness ==
    /\ clientPc = "read" /\ fwd_received # <<>> /\ backend_wire # <<>>
    /\ backendPc = "process" /\ lock = "backend"
    /\ state = "Forward"

\* C29: the client's bytes are buffered in arrival order and the packet handled
\* is always the first one buffered; a reply is written only in the step that
\* handles a packet, at the end of what the client socket already carries, so
\* before any later packet is handled and before the reader reads again.
C29_RepliesInOrder ==
    /\ [][clientPc = "lock" => IsPrefix(buf, buf')]_vars
    /\ [][(clientPc = "parse" /\ ParseGuard /\ buf' # buf) =>
            LET res == parse_packet(buf) IN
            /\ lock = "client"
            /\ res.tag = "Ok"
            /\ last'.kind \in {"packet", "panic"} /\ last'.buffered = buf
            /\ last'.id = res.packet.id /\ last'.data = res.packet.data
            /\ buf' \in {SubSeq(buf, res.len + 1, Len(buf)), <<>>}
            /\ client_wire' = client_wire \o last'.wrote
            /\ Len(last'.wrote) <= 1]_vars
    /\ [][(client_wire' # client_wire) =>
            /\ Len(client_wire') = Len(client_wire) + 1
            /\ IsPrefix(client_wire, client_wire')
            /\ client_wire'[Len(client_wire')].src = "packet" =>
                   (clientPc = "parse" /\ ParseGuard /\ buf' # buf)]_vars

\* A status request and two pings, each in its chunk, each answered in turn.
C29_Witness ==
    /\ Len(client_wire) = 3
    /\ IsStatusResponse(client_wire[1].bytes)
    /\ client_wire[2].bytes = Ping
    /\ client_wire[3].bytes = PingNeg
    /\ last.kind = "packet" /\ last.wrote = <<client_wire[3]>>
    /\ clientPc = "read"

\* C30: whatever the interleaving, the ids add_socket returns are all
\* different, the registry holds exactly the entries pushed whose id
\* remove_socket was not called with since, each as it was pushed, and size()
\* is their number.
C30_TrackerConsistent ==
    /\ \A i, j \in 1..Len(returned) : i # j => returned[i] # returned[j]
    /\ {sockets[i] : i \in 1..Len(sockets)} = {e \in added : e.id \notin unregistered}
    /\ size = Cardinality({e \in added : e.id \notin unregistered})

\* Two threads took the ids 0 and 1 and pushed them in the other order; the
\* entry 1 was removed from before the entry 0, and the id 2 was added since.
C30_Witness ==
    /\ returned = <<1, 0, 2>>
    /\ unregistered = {1}
    /\ Len(sockets) = 2
    /\ sockets[1].id = 0 /\ sockets[2].id = 2
    /\ sockets[1].socket # sockets[2].socket
    /\ size = 2

\* C31: on any buffer parse_packet returns an error, or a packet and a
\* consumed count between 1 and the buffer's length, the payload as long as
\* the length field less the width of the id, and not negative.
C31_ParseWithinBounds ==
    codec_in.op = "buffer" =>
        LET dec == codec_out.dec
            l == read_int(codec_in.buf, 0)
            i == read_int(codec_in.buf, l.len)
        IN \/ dec.tag = "Err"
           \/ /\ dec.tag = "Ok"
              /\ dec.len >= 1 /\ dec.len <= Len(codec_in.buf)
              /\ dec.packet.len >= 0
              /\ Len(dec.packet.data) = dec.packet.len
              /\ \/ codec_in.buf = LegacyPing
                 \/ dec.packet.len = l.val - i.len

\* C32: a session dials its backend at most once and spawns at most one
\* backend reader, and only after a dial that succeeded.
C32_DialAtMostOnce ==
    /\ [](Len(dials) <= 1)
    /\ [](backendPc # "none" => dials = <<"Ok">>)
    /\ [](backend_thread_handle <=> backendPc # "none")
    /\ [][backendPc' = "start" => backendPc \in {"none", "start"}]_vars

\* The dial failed, and the client's packets went on being handled: a ping
\* was echoed in Status, with no second dial and no backend reader.
C32_Witness ==
    /\ dials = <<"Err">>
    /\ Handled("Status") /\ last.id = 1 /\ Len(last.wrote) = 1
    /\ backendPc = "none" /\ ~backend_thread_handle
    /\ clientPc = "read"

\* C33: when the dial fails, the bytes buffered after the packet that set it
\* off stay in buf, to be parsed in Status.
C33_DialFailureKeepsBuffered ==
    (Handled("Login") /\ last.dial = "Err") =>
        last.left = SubSeq(last.buffered, parse_packet(last.buffered).len + 1,
                           Len(last.buffered))

====
